---- MODULE Spec2Model ----
(***************************************************************************)
(* The product page of the catalog demo: the useProduct hook               *)
(* (src/src/hooks/useProduct.ts), the ProductPage route component          *)
(* (src/src/routes/products/$productId.tsx) and the ProductDetail /        *)
(* ProductInfo consumers, running against the query cache that useQuery    *)
(* of @tanstack/react-query 5.x keeps (default options: staleTime 0,       *)
(* refetchOnMount and refetchOnWindowFocus on, retry per client config).   *)
(*                                                                         *)
(* JavaScript's undefined / null is the empty tuple << >>, a present value *)
(* x is << x >>.  NaN is the integer -1 (no product id is negative).       *)
(***************************************************************************)
EXTENDS Integers, Sequences, FiniteSets, TLC

\* Bounds of the model.
MaxCalls == 3      \* producer invocations recorded in one behaviour
MaxRetry == 1      \* retry count of a client that retries (library default 3)
MaxPrice == 1200   \* largest price, in thousandths, of the panel products
MaxClients == 3    \* QueryClients alive in one test file
MaxRenders == 2    \* renders made through the test utilities in one test file

Undefined == << >>
Some(x) == << x >>
IsDefined(o) == o # << >>
Get(o) == o[1]

NaN == 0 - 1

\* Route parameters a browser can put in /products/$productId.
NoParam == ""
Params == {"1", "01", "2", "0", "abc"}

\* Number(productId): "01" and "1" are the same number, "abc" is NaN.
Number(s) ==
    CASE s \in {"1", "01"} -> 1
      [] s = "2" -> 2
      [] s \in {"0", ""} -> 0
      [] OTHER -> NaN

\* !!id
Truthy(n) == n # 0 /\ n # NaN

\* Values of the Product type the service can resolve with.  price is in
\* thousandths of a dollar; no price lies on a rounding tie of toFixed(2).
Products ==
    { [id |-> 1, title |-> "Test Product", description |-> "Test description",
       price |-> 99990, brand |-> Some("Test Brand"),
       thumbnail |-> "thumbnail.jpg", images |-> << "image1.jpg", "image2.jpg" >>],
      [id |-> 2, title |-> "Other Product", description |-> "Other description",
       price |-> 19999, brand |-> Undefined,
       thumbnail |-> "thumbnail2.jpg", images |-> << >>] }

\* Errors the service can reject with.
Errors == { [message |-> "Failed to fetch product"], [message |-> "Network Error"] }

VARIABLES
    mounted,      \* the /products/$productId route is the active route
    productId,    \* the route parameter useParams returns
    retry,        \* defaultOptions.queries.retry of the QueryClient in use
    cache,        \* the QueryClient's query cache: queryKey -> query state
    calls,        \* every invocation of productService.getProduct, in order
    view,         \* what the route's component last rendered
    routeComponent, \* the component the router renders for /products/$productId
    catalog,      \* the products productService.getProduct can resolve with
    clients,      \* the QueryClients a test file has created, in order
    renders       \* the renders made through the test utilities, in order

\* What a run is set up with and never changes.
setup == << routeComponent, catalog >>

\* The test utilities' own state.
harness == << clients, renders >>

vars == << mounted, productId, retry, cache, calls, view, routeComponent, catalog,
           clients, renders >>

-----------------------------------------------------------------------------
\* useProduct: the options it hands to useQuery.

\* A key that leaves the id out: every product shares one cache entry.
queryKeyNoId(id) == << "product", 0 >>

queryKey(id) == << "product", id >>

\* The guard left out: the query is always enabled.
enabledAlways(id) == TRUE

enabled(id) == Truthy(id)

\* The producer called with the integer part of a halved id instead of id.
queryFnArgOther(id) == id \div 2

queryFnArg(id) == id

useProductOptions(param) ==
    LET id == Number(param)
    IN  [queryKey |-> queryKey(id), queryFnArg |-> queryFnArg(id), enabled |-> enabled(id)]

-----------------------------------------------------------------------------
\* The query cache behind useQuery.

NewQuery(opts) ==
    [status |-> "pending", fetchStatus |-> "idle", data |-> Undefined,
     error |-> Undefined, failureCount |-> 0, failureReason |-> Undefined,
     retryWait |-> FALSE, fnArg |-> opts.queryFnArg,
     dataCall |-> 0, errorCall |-> 0, failureCall |-> 0]

\* QueryCache.build: the query of a key is created on first use.
build(c, opts) ==
    IF opts.queryKey \in DOMAIN c
    THEN c
    ELSE [k \in DOMAIN c \cup {opts.queryKey} |->
            IF k = opts.queryKey THEN NewQuery(opts) ELSE c[k]]

\* A fetch that keeps status and error whatever the data.
fetchStateKeep(q, opts) ==
    [q EXCEPT !.fetchStatus = "fetching", !.failureCount = 0,
              !.failureReason = Undefined, !.failureCall = 0,
              !.retryWait = FALSE, !.fnArg = opts.queryFnArg]

\* The 'fetch' transition of a query: with no data it goes back to pending
\* and drops its error, with data it keeps status, data and error.
fetchState(q, opts) ==
    [q EXCEPT !.fetchStatus = "fetching",
              !.failureCount = 0,
              !.failureReason = Undefined,
              !.failureCall = 0,
              !.retryWait = FALSE,
              !.fnArg = opts.queryFnArg,
              !.status = IF IsDefined(q.data) THEN q.status ELSE "pending",
              !.error = IF IsDefined(q.data) THEN q.error ELSE Undefined,
              !.errorCall = IF IsDefined(q.data) THEN q.errorCall ELSE 0]

\* One invocation of the producer: queryFn calls productService.getProduct(arg).
getProduct(key, arg) ==
    [key |-> key, arg |-> arg, state |-> "inflight", data |-> Undefined, error |-> Undefined]

\* No deduplication: every fetch starts a request.
dedupeNever(q) == FALSE

\* Query.fetch: a query that is already fetching hands back its promise.
dedupe(q) == q.fetchStatus # "idle"

fetch(st, opts) ==
    LET q == st.cache[opts.queryKey]
    IN  IF dedupe(q)
        THEN st
        ELSE [cache |-> [st.cache EXCEPT ![opts.queryKey] = fetchState(q, opts)],
              calls |-> Append(st.calls, getProduct(opts.queryKey, opts.queryFnArg))]

\* A QueryObserver subscribes to (or switches to) the query of its options:
\* the data is always stale (staleTime 0), so an enabled observer fetches.
observe(st, opts) ==
    LET built == [st EXCEPT !.cache = build(st.cache, opts)]
    IN  IF opts.enabled THEN fetch(built, opts) ELSE built

\* isLoading read off a status name the library does not use.
isLoadingV4(q) == q.status = "loading" /\ q.fetchStatus = "fetching"

\* isLoading taken for isPending: true for a disabled query too.
isLoadingPending(q) == q.status = "pending"

\* isLoading taken for isFetching: true during a background refetch too.
isLoadingFetching(q) == q.fetchStatus = "fetching"

\* What useQuery returns for the query of the options.
isLoading(q) == q.status = "pending" /\ q.fetchStatus = "fetching"

useQuery(c, opts) ==
    LET q == c[opts.queryKey]
    IN  [data |-> q.data, error |-> q.error, isLoading |-> isLoading(q)]

useProduct(c, param) == useQuery(c, useProductOptions(param))

-----------------------------------------------------------------------------
\* The components.

\* A price cut off after two decimals instead of rounded.
toFixed2Truncated(m) ==
    LET c == m \div 10
    IN  << c \div 100, (c % 100) \div 10, c % 10 >>

\* Number.prototype.toFixed(2) of a price given in thousandths: the digits
\* of the nearest hundredth, as << whole, tenths, hundredths >>.
toFixed2(m) ==
    LET c == (m + 5) \div 10
    IN  << c \div 100, (c % 100) \div 10, c % 10 >>

\* ProductInfo: title, "$" + price.toFixed(2), description, each read with ?.
ProductInfo(r) ==
    IF IsDefined(r.data)
    THEN [title |-> Get(r.data).title,
          price |-> << "$" >> \o toFixed2(Get(r.data).price),
          description |-> Get(r.data).description]
    ELSE [title |-> "", price |-> << "$" >>, description |-> ""]

\* A meta panel that prints the brand as it is, with no fallback.
ProductMetaNoFallback(r) ==
    [brand |-> IF IsDefined(r.data) /\ IsDefined(Get(r.data).brand)
               THEN Get(Get(r.data).brand) ELSE ""]

\* ProductMeta: the brand slot shows the brand, or "N/A" when there is none.
ProductMeta(r) ==
    [brand |-> IF IsDefined(r.data) /\ IsDefined(Get(r.data).brand)
               THEN Get(Get(r.data).brand) ELSE "N/A"]

\* An image panel that always shows the thumbnail.
ProductImageThumbnail(r) ==
    [src |-> IF IsDefined(r.data) THEN Some(Get(r.data).thumbnail) ELSE Undefined,
     alt |-> IF IsDefined(r.data) THEN Get(r.data).title ELSE ""]

\* ProductImage: the first image, or the thumbnail when there are no images.
ProductImage(r) ==
    [src |-> IF ~IsDefined(r.data) THEN Undefined
             ELSE IF Len(Get(r.data).images) = 0
                  THEN Some(Get(r.data).thumbnail)
                  ELSE Some(Get(r.data).images[1]),
     alt |-> IF IsDefined(r.data) THEN Get(r.data).title ELSE ""]

\* Panels that keep the product they first rendered instead of reading the
\* hook on every render.
ProductDetailKept(r) ==
    IF IsDefined(view.detail)
    THEN Get(view.detail)
    ELSE [info |-> ProductInfo(r), meta |-> ProductMeta(r), image |-> ProductImage(r)]

\* ProductDetail: the panels, each of which calls useProduct itself.
ProductDetail(r) ==
    [info |-> ProductInfo(r), meta |-> ProductMeta(r), image |-> ProductImage(r)]

\* A page that renders ProductDetail without the `product &&` guard.
ProductPageUnguarded(r) ==
    [loading |-> r.isLoading,
     error |-> IF IsDefined(r.error)
               THEN Some(<< "Error loading product: ", Get(r.error).message >>)
               ELSE Undefined,
     detail |-> Some(ProductDetail(r))]

\* ProductPage: three independent conditionals over the hook's result.
ProductPage(r) ==
    [loading |-> r.isLoading,
     error |-> IF IsDefined(r.error)
               THEN Some(<< "Error loading product: ", Get(r.error).message >>)
               ELSE Undefined,
     detail |-> IF IsDefined(r.data) THEN Some(ProductDetail(r)) ELSE Undefined]

\* Nothing of the page is on screen while another route is active.
Blank == [loading |-> FALSE, error |-> Undefined, detail |-> Undefined, renderer |-> "none"]

\* The render that follows a change of the cache or of the route parameter.
\* When ProductDetail appears, its children mount and each calls useProduct:
\* new observers of a stale query refetch it (once: the fetch is deduped).
commit(st, param, hadDetail) ==
    LET opts == useProductOptions(param)
        r == useQuery(st.cache, opts)
    IN  IF IsDefined(r.data) /\ ~hadDetail THEN observe(st, opts) ELSE st

\* The route's configuration: createFileRoute(...)({ component: ProductPage }).
Route == [component |-> "ProductPage"]

\* A hook that suspends its caller while the query is pending.
suspendsWhilePending(q) == q.status = "pending" /\ q.fetchStatus = "fetching"

\* useQuery hands back a result in every state: it never suspends the caller
\* and never throws the query's error to a boundary.
suspends(q) == FALSE

\* A hook that hands the query's error to the nearest error boundary.
throwsOnError(q) == q.status = "error" /\ q.data = Undefined

throws(q) == FALSE

\* The renderer of the route the router puts on screen: the error renderer
\* when the component threw, the pending one while it is suspended.
routeBoundary(q) ==
    IF throws(q) THEN "errorComponent"
    ELSE IF suspends(q) THEN "pendingComponent"
    ELSE "component"

\* The route's component rendered bare, as the component tests do with
\* createTestRouter(ProductDetail): no loading text, no error text, and the
\* panels are on screen whatever the hook returns.
DetailAsPage(r) ==
    [loading |-> FALSE, error |-> Undefined, detail |-> Some(ProductDetail(r))]

render(c, param, comp) ==
    LET q == c[useProductOptions(param).queryKey]
        page == IF comp = "ProductPage"
                THEN ProductPage(useProduct(c, param))
                ELSE DetailAsPage(useProduct(c, param))
    IN  IF routeBoundary(q) = "component"
        THEN [loading |-> page.loading, error |-> page.error, detail |-> page.detail,
              renderer |-> "component"]
        ELSE [loading |-> FALSE, error |-> Undefined, detail |-> Undefined,
              renderer |-> routeBoundary(q)]

-----------------------------------------------------------------------------
Store == [cache |-> cache, calls |-> calls]

TypeOK ==
    /\ mounted \in BOOLEAN
    /\ productId \in Params \cup {NoParam}
    /\ retry \in 0..MaxRetry
    /\ Len(calls) <= MaxCalls
    /\ view.loading \in BOOLEAN
    /\ view.renderer \in {"none", "component", "pendingComponent", "errorComponent"}

Init ==
    /\ mounted = FALSE
    /\ productId = NoParam
    /\ retry \in {0, MaxRetry}
    /\ cache = << >>
    /\ calls = << >>
    /\ view = Blank
    /\ routeComponent = "ProductPage"
    /\ catalog = Products
    /\ clients = << >>
    /\ renders = << >>

\* The query an observer of the active route is subscribed to.
hasObserver(key) == mounted /\ useProductOptions(productId).queryKey = key

\* A success that keeps the data the query already had.
successStateKeepOld(q, p, i) ==
    [q EXCEPT !.status = "success",
              !.data = IF IsDefined(q.data) THEN q.data ELSE Some(p), !.dataCall = i,
              !.error = Undefined, !.errorCall = 0,
              !.fetchStatus = "idle", !.failureCount = 0,
              !.failureReason = Undefined, !.failureCall = 0, !.retryWait = FALSE]

\* A success that stores the data and leaves the status as it was.
successStateStatusKept(q, p, i) ==
    [q EXCEPT !.data = Some(p), !.dataCall = i,
              !.error = Undefined, !.errorCall = 0,
              !.fetchStatus = "idle", !.failureCount = 0,
              !.failureReason = Undefined, !.failureCall = 0, !.retryWait = FALSE]

\* The 'success' transition of a query.
successState(q, p, i) ==
    [q EXCEPT !.status = "success", !.data = Some(p), !.dataCall = i,
              !.error = Undefined, !.errorCall = 0,
              !.fetchStatus = "idle", !.failureCount = 0,
              !.failureReason = Undefined, !.failureCall = 0, !.retryWait = FALSE]

\* An error transition that replaces the producer's error by its own.
errorStateWrapped(q, e, i) ==
    [q EXCEPT !.status = "error", !.error = Some([message |-> "Something went wrong"]),
              !.errorCall = i, !.fetchStatus = "idle",
              !.failureReason = Some(e), !.failureCall = i, !.retryWait = FALSE]

\* The 'error' transition of a query: the data it had stays.
errorState(q, e, i) ==
    [q EXCEPT !.status = "error", !.error = Some(e), !.errorCall = i,
              !.fetchStatus = "idle", !.failureReason = Some(e), !.failureCall = i,
              !.retryWait = FALSE]

\* The 'failed' transition: the retryer counts the failure and waits.
failedState(q, e, i) ==
    [q EXCEPT !.failureCount = @ + 1, !.failureReason = Some(e), !.failureCall = i,
              !.retryWait = TRUE]

\* The retryer's decision after a rejection: retry while the configured
\* count is not used up and the query still has an observer.
shouldRetry(q, key, count) == q.failureCount < count /\ hasObserver(key)

\* A settled promise delivered to whatever query the page now observes.
settleKeyCurrent(call, current) == current

\* The query a settled promise is delivered to: the one that started it.
settleKey(call, current) == call.key

\* Apply a new store and route parameter, then render.
Apply(st, isMounted, param, hadDetail) ==
    LET done == IF isMounted THEN commit(st, param, hadDetail) ELSE st
    IN  /\ Len(done.calls) <= MaxCalls
        /\ cache' = done.cache
        /\ calls' = done.calls
        /\ view' = IF isMounted THEN render(done.cache, param, routeComponent) ELSE Blank

\* The router activates /products/p: ProductPage mounts and calls useProduct.
Enter(p) ==
    /\ ~mounted
    /\ mounted' = TRUE
    /\ productId' = p
    /\ Apply(observe(Store, useProductOptions(p)), TRUE, p, FALSE)
    /\ UNCHANGED << retry, setup, harness >>

\* The route parameter changes while the page stays mounted: the observers
\* switch to the query of the new key (none when the key is the same).
Navigate(p) ==
    /\ mounted
    /\ p # productId
    /\ mounted' = TRUE
    /\ productId' = p
    /\ LET old == useProductOptions(productId)
           new == useProductOptions(p)
           st == IF new.queryKey = old.queryKey THEN Store ELSE observe(Store, new)
       IN  Apply(st, TRUE, p, IsDefined(view.detail))
    /\ UNCHANGED << retry, setup, harness >>

\* The user goes to another route: the page and its observers unmount.
\* A fetch in flight is not cancelled (queryFn takes no abort signal).
Leave ==
    /\ mounted
    /\ mounted' = FALSE
    /\ productId' = NoParam
    /\ view' = Blank
    /\ UNCHANGED << retry, cache, calls, setup, harness >>

\* The window regains focus: an enabled observer refetches its stale query.
Refocus ==
    /\ mounted
    /\ LET opts == useProductOptions(productId)
       IN  /\ opts.enabled
           /\ ~dedupe(cache[opts.queryKey])
           /\ Apply(fetch(Store, opts), TRUE, productId, IsDefined(view.detail))
    /\ UNCHANGED << mounted, productId, retry, setup, harness >>

\* productService.getProduct resolves invocation i with product p.
Resolve(i, p) ==
    /\ calls[i].state = "inflight"
    /\ LET k == settleKey(calls[i], useProductOptions(productId).queryKey)
           st == [cache |-> [cache EXCEPT ![k] = successState(@, p, i)],
                  calls |-> [calls EXCEPT ![i].state = "resolved", ![i].data = Some(p)]]
       IN  Apply(st, mounted, productId, IsDefined(view.detail))
    /\ UNCHANGED << mounted, productId, retry, setup, harness >>

\* productService.getProduct rejects invocation i with error e.
Reject(i, e) ==
    /\ calls[i].state = "inflight"
    /\ LET k == settleKey(calls[i], useProductOptions(productId).queryKey)
           q == cache[k]
           st == [cache |-> [cache EXCEPT ![k] =
                                IF shouldRetry(q, k, retry)
                                THEN failedState(q, e, i)
                                ELSE errorState([q EXCEPT !.failureCount = @ + 1], e, i)],
                  calls |-> [calls EXCEPT ![i].state = "rejected", ![i].error = Some(e)]]
       IN  Apply(st, mounted, productId, IsDefined(view.detail))
    /\ UNCHANGED << mounted, productId, retry, setup, harness >>

\* The retry delay of a query ends: the producer is invoked again, unless
\* the last observer left meanwhile, which rejects with the last failure.
RetryFire(k) ==
    /\ k \in DOMAIN cache
    /\ cache[k].retryWait
    /\ LET q == cache[k]
           st == IF hasObserver(k)
                 THEN [cache |-> [cache EXCEPT ![k].retryWait = FALSE],
                       calls |-> Append(calls, getProduct(k, q.fnArg))]
                 ELSE [cache |-> [cache EXCEPT ![k] =
                                     errorState(q, Get(q.failureReason), q.failureCall)],
                       calls |-> calls]
       IN  Apply(st, mounted, productId, IsDefined(view.detail))
    /\ UNCHANGED << mounted, productId, retry, setup, harness >>

\* gcTime passes for an idle query without observers: it leaves the cache.
Gc(k) ==
    /\ k \in DOMAIN cache
    /\ ~hasObserver(k)
    /\ cache[k].fetchStatus = "idle"
    /\ cache' = [j \in DOMAIN cache \ {k} |-> cache[j]]
    /\ UNCHANGED << mounted, productId, retry, calls, view, setup, harness >>

Next ==
    \/ \E p \in Params : Enter(p)
    \/ \E p \in Params : Navigate(p)
    \/ Leave
    \/ Refocus
    \/ \E i \in 1..Len(calls), p \in catalog : Resolve(i, p)
    \/ \E i \in 1..Len(calls), e \in Errors : Reject(i, e)
    \/ \E k \in DOMAIN cache : RetryFire(k)
    \/ \E k \in DOMAIN cache : Gc(k)

Spec == Init /\ [][Next]_vars

-----------------------------------------------------------------------------
\* Helpers of the properties.

CurrentId == Number(productId)
CurrentKey == useProductOptions(productId).queryKey
CurrentQuery == cache[CurrentKey]

CallIds == 1..Len(calls)
InFlight(k) == { i \in CallIds : calls[i].key = k /\ calls[i].state = "inflight" }
Settled(k) == { i \in CallIds : calls[i].key = k /\ calls[i].state # "inflight" }

\* How many of the loading text, the error text and ProductDetail are on screen.
VisibleCount ==
    (IF view.loading THEN 1 ELSE 0)
    + (IF IsDefined(view.error) THEN 1 ELSE 0)
    + (IF IsDefined(view.detail) THEN 1 ELSE 0)

\* The texts the tests expect for a product: the title and "$" followed by
\* the price with two decimals ("$99.99" for 99.99, "$20.00" for 19.999).
ExpectedPrice(p) ==
    CASE p.price = 99990 -> << "$", 99, 9, 9 >>
      [] p.price = 19999 -> << "$", 20, 0, 0 >>

ShowsProduct(v, p) ==
    /\ IsDefined(v.detail)
    /\ Get(v.detail).info.title = p.title
    /\ Get(v.detail).info.price = ExpectedPrice(p)

ShowsError(v, e) == v.error = Some(<< "Error loading product: ", e.message >>)

-----------------------------------------------------------------------------
\* C1: while the page shows a product id the hook fetches, exactly one of the
\* loading indicator, the error message and the resolved content is visible.
C1_ExactlyOneVisible ==
    (mounted /\ Truthy(CurrentId)) => VisibleCount = 1

\* C2: every invocation of productService.getProduct was made with a truthy
\* id: the producer is never called while the id is 0 or NaN.
C2_ProducerOnlyWithTruthyId ==
    \A i \in CallIds : Truthy(calls[i].arg)

\* The page is mounted on a falsy id, its query exists and is idle, and the
\* producer has been used for another id before.
C2_Witness ==
    /\ mounted
    /\ ~Truthy(CurrentId)
    /\ CurrentKey \in DOMAIN cache
    /\ CurrentQuery.fetchStatus = "idle"
    /\ Len(calls) > 0

\* C3: the hook's query lives under ['product', Number(productId)]; every
\* producer invocation for a key was made with the id in that key; and the
\* data or error a key holds was produced by an invocation for that very key.
C3_KeyAndProducerAgree ==
    /\ mounted => << "product", CurrentId >> \in DOMAIN cache
    /\ \A i \in CallIds : calls[i].key = << "product", calls[i].arg >>
    /\ \A k \in DOMAIN cache :
         /\ IsDefined(cache[k].data) =>
              /\ cache[k].dataCall \in CallIds
              /\ k = << "product", calls[cache[k].dataCall].arg >>
              /\ cache[k].data = calls[cache[k].dataCall].data
         /\ IsDefined(cache[k].error) =>
              /\ cache[k].errorCall \in CallIds
              /\ k = << "product", calls[cache[k].errorCall].arg >>
              /\ cache[k].error = calls[cache[k].errorCall].error

\* Two keys hold data, each from its own invocation.
C3_Witness ==
    /\ << "product", 1 >> \in DOMAIN cache
    /\ << "product", 2 >> \in DOMAIN cache
    /\ IsDefined(cache[<< "product", 1 >>].data)
    /\ IsDefined(cache[<< "product", 2 >>].data)

\* C4 (scenario A): while no invocation for the current key has settled, the
\* page shows the loading text and neither the error text nor the content.
C4_PendingWhileUnresolved ==
    (mounted /\ Truthy(CurrentId) /\ Settled(<< "product", CurrentId >>) = {})
        => /\ view.loading
           /\ ~IsDefined(view.error)
           /\ ~IsDefined(view.detail)
           /\ InFlight(<< "product", CurrentId >>) # {}

\* getProduct(1) is in flight, nothing has settled, the loading text is shown.
C4_Witness ==
    /\ mounted
    /\ CurrentId = 1
    /\ Len(calls) = 1
    /\ calls[1].state = "inflight"
    /\ view.loading

\* C5 (scenario B): the error a query holds is the very error its producer
\* rejected with, and the page shows its message; with retries off the first
\* rejection puts the query into the error state.
ErrorPassedThrough ==
    \A k \in DOMAIN cache :
        IsDefined(cache[k].error) =>
            /\ cache[k].errorCall \in CallIds
            /\ calls[cache[k].errorCall].state = "rejected"
            /\ cache[k].error = calls[cache[k].errorCall].error
            /\ (mounted /\ CurrentKey = k) => ShowsError(view, Get(calls[cache[k].errorCall].error))

RejectedNow(i) ==
    /\ calls[i].state = "inflight"
    /\ calls'[i].state = "rejected"

C5_ErrorPassedThrough ==
    [][ /\ ErrorPassedThrough'
        /\ \A i \in CallIds :
             (RejectedNow(i) /\ retry = 0) =>
                 /\ cache'[calls[i].key].status = "error"
                 /\ cache'[calls[i].key].error = calls'[i].error
                 /\ (mounted /\ CurrentKey = calls[i].key)
                        => ShowsError(view', Get(calls'[i].error)) ]_vars

\* With retries off, the only invocation rejected and the page shows the
\* message of the rejection.
C5_Witness ==
    /\ mounted
    /\ retry = 0
    /\ Len(calls) = 1
    /\ calls[1].state = "rejected"
    /\ ShowsError(view, [message |-> "Failed to fetch product"])

\* C6 (scenario C): when the producer resolves for the current key the page
\* shows the content built from the product it returned, and whenever content
\* is shown it is built from the value of the latest resolved invocation.
ResolvedNow(i) ==
    /\ calls[i].state = "inflight"
    /\ calls'[i].state = "resolved"

ContentFromProducer ==
    (mounted /\ IsDefined(view.detail)) =>
        /\ CurrentQuery.dataCall \in CallIds
        /\ calls[CurrentQuery.dataCall].state = "resolved"
        /\ ShowsProduct(view, Get(calls[CurrentQuery.dataCall].data))

C6_ContentFromProducer ==
    [][ /\ ContentFromProducer'
        /\ \A i \in CallIds :
             (ResolvedNow(i) /\ mounted /\ CurrentKey = calls[i].key)
                 => ShowsProduct(view', Get(calls'[i].data)) ]_vars

\* The page shows "Test Product" and "$99.99" for the resolved getProduct(1).
C6_Witness ==
    /\ mounted
    /\ CurrentId = 1
    /\ calls[1].state = "resolved"
    /\ ShowsProduct(view, [title |-> "Test Product", price |-> 99990])
    /\ Get(view.detail).info.price = << "$", 99, 9, 9 >>

\* C7 (scenario D): what the page shows was produced by an invocation for the
\* id the page is on, and an invocation that settles for another key leaves
\* the page as it is.
ViewOfCurrentId ==
    mounted =>
        /\ IsDefined(view.detail) =>
              /\ CurrentQuery.dataCall \in CallIds
              /\ calls[CurrentQuery.dataCall].arg = CurrentId
              /\ ShowsProduct(view, Get(calls[CurrentQuery.dataCall].data))
        /\ IsDefined(view.error) =>
              /\ CurrentQuery.errorCall \in CallIds
              /\ calls[CurrentQuery.errorCall].arg = CurrentId
              /\ ShowsError(view, Get(calls[CurrentQuery.errorCall].error))

C7_NoStaleResult ==
    [][ /\ ViewOfCurrentId'
        /\ \A i \in CallIds :
             ((ResolvedNow(i) \/ RejectedNow(i)) /\ calls[i].arg # CurrentId)
                 => view' = view ]_vars

\* The page is on id 2 and shows its content while getProduct(1), started
\* first, is still in flight.
C7_Witness ==
    /\ mounted
    /\ CurrentId = 2
    /\ Len(calls) >= 2
    /\ calls[1].arg = 1
    /\ calls[1].state = "inflight"
    /\ IsDefined(view.detail)

\* C8 as stated: a key that has a cached value has no producer request in
\* flight (a second fetch of the key is served from the cache alone).
C8_SingleRequestPerKey ==
    \A k \in DOMAIN cache : IsDefined(cache[k].data) => InFlight(k) = {}

\* C8 as amended: a key never has two requests in flight, a request is in
\* flight only for a fetching query, and while a key with a cached value is
\* refetched its consumers keep the cached value.
C8_OneInFlightPerKey ==
    /\ \A k \in DOMAIN cache :
         /\ Cardinality(InFlight(k)) <= 1
         /\ InFlight(k) # {} => cache[k].fetchStatus = "fetching"
    /\ \A i \in CallIds : calls[i].state = "inflight" => calls[i].key \in DOMAIN cache
    /\ (mounted /\ CurrentKey \in DOMAIN cache /\ IsDefined(CurrentQuery.data)
          /\ InFlight(CurrentKey) # {})
         => /\ IsDefined(view.detail)
            /\ CurrentQuery.data = calls[CurrentQuery.dataCall].data

\* The children of ProductDetail mounted on cached data and one refetch of
\* the key is in flight.
C8_Witness ==
    /\ mounted
    /\ IsDefined(view.detail)
    /\ Cardinality(InFlight(CurrentKey)) = 1
    /\ Cardinality(Settled(CurrentKey)) >= 1

\* C9 as stated: the route registers component, pendingComponent and
\* errorComponent, and the loading text, the error text and the content are
\* put on screen by the pending, the error and the normal renderer.
C9_BoundaryChooses ==
    mounted =>
        /\ DOMAIN Route = {"component", "pendingComponent", "errorComponent"}
        /\ view.loading => view.renderer = "pendingComponent"
        /\ IsDefined(view.error) => view.renderer = "errorComponent"
        /\ IsDefined(view.detail) => view.renderer = "component"

\* C9 as amended: the renderer on screen is always the route's one registered
\* renderer, component, and what is visible is chosen by ProductPage's own
\* conditionals over isLoading, error and data of the current query.
C9_PageChooses ==
    mounted =>
        /\ view.renderer \in DOMAIN Route
        /\ view.renderer = "component"
        /\ view.loading = (CurrentQuery.status = "pending" /\ CurrentQuery.fetchStatus = "fetching")
        /\ IsDefined(view.error) = IsDefined(CurrentQuery.error)
        /\ IsDefined(view.detail) = IsDefined(CurrentQuery.data)

\* The loading text is on screen and it is ProductPage that rendered it.
C9_Witness ==
    /\ mounted
    /\ view.loading
    /\ view.renderer = "component"
    /\ CurrentQuery.fetchStatus = "fetching"

\* C11: while the error text is on screen, ProductDetail is not rendered.
C11_NoContentBesideError ==
    (mounted /\ IsDefined(view.error)) => ~IsDefined(view.detail)

\* C10 as stated: from a page that shows content or an error, a change of
\* the key to an id without cached data shows the loading indicator.
Terminal(v) == ~v.loading /\ (IsDefined(v.error) \/ IsDefined(v.detail))

Uncached(c, k) == k \notin DOMAIN c \/ ~IsDefined(c[k].data)

KeyChangeToUncached ==
    /\ mounted
    /\ mounted'
    /\ Terminal(view)
    /\ << "product", Number(productId') >> # << "product", CurrentId >>
    /\ Uncached(cache, << "product", Number(productId') >>)

C10_KeyChangeRestarts ==
    [][ KeyChangeToUncached => (view'.loading /\ VisibleCount' = 1) ]_vars

\* C10 as amended: the same for a truthy id; a change to a falsy id leaves
\* the query disabled and nothing on screen.
C10_TruthyKeyChangeRestarts ==
    [][ KeyChangeToUncached =>
          IF Truthy(Number(productId'))
          THEN view'.loading /\ VisibleCount' = 1
          ELSE VisibleCount' = 0 ]_vars

\* The page is loading id 2 while key 1 is in a terminal state.
C10_Witness ==
    /\ mounted
    /\ CurrentId = 2
    /\ view.loading
    /\ << "product", 1 >> \in DOMAIN cache
    /\ cache[<< "product", 1 >>].status \in {"success", "error"}
    /\ cache[<< "product", 1 >>].fetchStatus = "idle"
    /\ cache[<< "product", 2 >>].status = "pending"

-----------------------------------------------------------------------------
\* The component tests: renderWithRouter(ProductDetail) puts ProductDetail
\* itself on the route, with no page around it.
InitDetail ==
    /\ mounted = FALSE
    /\ productId = NoParam
    /\ retry \in {0, MaxRetry}
    /\ cache = << >>
    /\ calls = << >>
    /\ view = Blank
    /\ routeComponent = "ProductDetail"
    /\ catalog = Products
    /\ clients = << >>
    /\ renders = << >>

SpecDetail == InitDetail /\ [][Next]_vars

\* What the panels print when the hook hands them no product.
EmptyPanels ==
    [info |-> [title |-> "", price |-> << "$" >>, description |-> ""],
     meta |-> [brand |-> "N/A"],
     image |-> [src |-> Undefined, alt |-> ""]]

Prices ==
    { m \in 0..MaxPrice : m % 10 # 5 \/ m % 125 = 0 } \cup { p.price : p \in Products }

\* Products for product id 1 with every combination of the fields the
\* panels read.
PanelProducts ==
    { [id |-> 1, title |-> t, description |-> "Test description",
       price |-> m, brand |-> b, thumbnail |-> "thumbnail.jpg", images |-> im] :
         t \in {"Test Product", "Other Product"},
         m \in Prices,
         b \in {Undefined, Some("Test Brand")},
         im \in {<< >>, << "image1.jpg" >>, << "image1.jpg", "image2.jpg" >>} }

\* One product served for /products/1, shown by the page or by ProductDetail
\* alone; the client of the tests does not retry.
InitPanels ==
    /\ mounted = FALSE
    /\ productId = NoParam
    /\ retry = 0
    /\ cache = << >>
    /\ calls = << >>
    /\ view = Blank
    /\ routeComponent \in {"ProductPage", "ProductDetail"}
    /\ catalog \in { {p} : p \in PanelProducts }
    /\ clients = << >>
    /\ renders = << >>

NextPanels ==
    \/ Enter("1")
    \/ \E i \in 1..Len(calls), p \in catalog : Resolve(i, p)

SpecPanels == InitPanels /\ [][NextPanels]_vars

\* The panels are on screen and the hook hands them a product.
PanelsShowProduct ==
    mounted /\ IsDefined(view.detail) /\ IsDefined(CurrentQuery.data)

\* C14: the info panel shows the title and the description verbatim and the
\* price as "$" followed by the price rounded to exactly two decimals: three
\* digit groups (whole, tenths, hundredths) naming the hundredth nearest to
\* the price, the upper one on a tie.
C14_InfoPanel ==
    PanelsShowProduct =>
        LET p == Get(CurrentQuery.data)
            info == Get(view.detail).info
            shown == 100 * info.price[2] + 10 * info.price[3] + info.price[4]
        IN  /\ p \in catalog
            /\ info.title = p.title
            /\ info.description = p.description
            /\ Len(info.price) = 4
            /\ info.price[1] = "$"
            /\ info.price[2] >= 0
            /\ info.price[3] \in 0..9 /\ info.price[4] \in 0..9
            /\ 10 * shown - p.price \in (0 - 4)..5

\* The page shows a price of 0.996 as "$1.00".
C14_Witness ==
    /\ PanelsShowProduct /\ routeComponent = "ProductPage"
    /\ Get(CurrentQuery.data).price = 996
    /\ Get(view.detail).info.price = << "$", 1, 0, 0 >>

\* C15: the meta panel's brand slot shows "N/A" for a product without a
\* brand and the brand verbatim for a product with one.
C15_BrandSlot ==
    PanelsShowProduct =>
        LET p == Get(CurrentQuery.data)
            meta == Get(view.detail).meta
        IN  /\ p.brand = Undefined => meta.brand = "N/A"
            /\ p.brand # Undefined => meta.brand = Get(p.brand)

\* A product without a brand is on screen with "N/A" in the brand slot.
C15_Witness ==
    /\ PanelsShowProduct
    /\ Get(CurrentQuery.data).brand = Undefined
    /\ Get(view.detail).meta.brand = "N/A"

\* C16: the image panel's source is the thumbnail for a product with no
\* images and the first image otherwise.
C16_ImageSource ==
    PanelsShowProduct =>
        LET p == Get(CurrentQuery.data)
            image == Get(view.detail).image
        IN  /\ Len(p.images) = 0 => image.src = Some(p.thumbnail)
            /\ Len(p.images) > 0 => image.src = Some(Head(p.images))

\* A product with no images is on screen with its thumbnail as the source.
C16_Witness ==
    /\ PanelsShowProduct
    /\ Get(CurrentQuery.data).images = << >>
    /\ Get(view.detail).image.src = Some("thumbnail.jpg")

-----------------------------------------------------------------------------
\* The test utilities (src/src/test/test-utils.tsx).  A client is its retry
\* default and what its cache holds for the rendered product's key.

\* new QueryClient({ defaultOptions: { queries: { retry } } }): empty cache.
QueryClient(r) == [retry |-> r, entries |-> {}]

\* One module-level client handed out on every call.
createTestQueryClientShared(cs) ==
    IF cs = << >>
    THEN [clients |-> << QueryClient(0) >>, id |-> 1]
    ELSE [clients |-> cs, id |-> 1]

\* createTestQueryClient: a new client on every call, retries off.
createTestQueryClient(cs) ==
    [clients |-> Append(cs, QueryClient(0)), id |-> Len(cs) + 1]

\* providedQueryClient || createTestQueryClient(); 0 is no client given.
clientFor(cs, given) ==
    IF given # 0 THEN [clients |-> cs, id |-> given] ELSE createTestQueryClient(cs)

\* renderWithRouter returns { ...render(<Wrapper />), queryClient }.
renderWithRouter(cs, given) ==
    LET c == clientFor(cs, given)
    IN  [clients |-> c.clients, used |-> c.id, returned |-> c.id]

\* renderWithProviders returns render(ui, ...) alone: no client.
renderWithProviders(cs, given) ==
    LET c == clientFor(cs, given)
    IN  [clients |-> c.clients, used |-> c.id, returned |-> 0]

\* What every client's cache held, taken together.
AllEntries(cs) == UNION { cs[i].entries : i \in 1..Len(cs) }

InitTests ==
    /\ mounted = FALSE
    /\ productId = NoParam
    /\ retry = 0
    /\ cache = << >>
    /\ calls = << >>
    /\ view = Blank
    /\ routeComponent = "ProductPage"
    /\ catalog = Products
    /\ clients = << >>
    /\ renders = << >>

\* A test constructs a client of its own, to inject it.
NewClient(r) ==
    /\ Len(clients) < MaxClients
    /\ clients' = Append(clients, QueryClient(r))
    /\ UNCHANGED << mounted, productId, retry, cache, calls, view, setup, renders >>

\* A test renders through one of the utilities, with or without a client.
TestRender(util, given) ==
    LET out == IF util = "renderWithRouter"
               THEN renderWithRouter(clients, given)
               ELSE renderWithProviders(clients, given)
    IN  /\ Len(renders) < MaxRenders
        /\ Len(out.clients) <= MaxClients
        /\ clients' = out.clients
        /\ renders' = Append(renders,
               [util |-> util, given |-> given, used |-> out.used,
                returned |-> out.returned,
                existed |-> out.used <= Len(clients),
                retry |-> out.clients[out.used].retry,
                startEntries |-> out.clients[out.used].entries,
                cachedBefore |-> AllEntries(clients)])
        /\ UNCHANGED << mounted, productId, retry, cache, calls, view, setup >>

\* The query of a render settles: its client's cache records the result
\* or the failure.
TestSettle(j, o) ==
    /\ o \notin clients[renders[j].used].entries
    /\ clients' = [clients EXCEPT ![renders[j].used].entries = @ \cup {o}]
    /\ UNCHANGED << mounted, productId, retry, cache, calls, view, setup, renders >>

NextTests ==
    \/ \E r \in {0, MaxRetry} : NewClient(r)
    \/ \E util \in {"renderWithRouter", "renderWithProviders"},
          given \in 0..Len(clients) : TestRender(util, given)
    \/ \E j \in 1..Len(renders), o \in {"data", "error"} : TestSettle(j, o)

SpecTests == InitTests /\ [][NextTests]_vars

\* A render without a client runs on a client made for it: one that did not
\* exist before, with an empty cache and retries off, that no earlier render
\* used and that a later render uses only when the test injects it.
FreshClient(j) ==
    LET r == renders[j]
    IN  /\ ~r.existed
        /\ r.startEntries = {}
        /\ r.retry = 0
        /\ \A i \in 1..Len(renders) :
              (i # j /\ renders[i].used = r.used) => (i > j /\ renders[i].given = r.used)

\* C18 as stated: a render without an injected client gets a new, empty,
\* non-retrying client that no other render shares; an injected client is
\* the one used and the one returned, whichever utility renders.
C18_FreshOrInjectedReturned ==
    \A j \in 1..Len(renders) :
        LET r == renders[j]
        IN  /\ r.given = 0 => FreshClient(j)
            /\ r.given # 0 => (r.used = r.given /\ r.returned = r.given)

\* C18 amended: a render without an injected client gets a new, empty,
\* non-retrying client that no other render shares; an injected client is
\* the one used, and renderWithRouter returns the client it used (injected
\* or new) while renderWithProviders returns no client.
C18_FreshOrInjectedUsed ==
    \A j \in 1..Len(renders) :
        LET r == renders[j]
        IN  /\ r.given = 0 => FreshClient(j)
            /\ r.given # 0 => r.used = r.given
            /\ r.util = "renderWithRouter" => r.returned = r.used
            /\ r.util = "renderWithProviders" => r.returned = 0

\* A second render without a client starts empty although an earlier
\* render's client holds a result and a failure.
C18_Witness ==
    /\ Len(renders) = 2
    /\ renders[1].given = 0 /\ renders[2].given = 0
    /\ renders[2].cachedBefore = {"data", "error"}
    /\ renders[2].startEntries = {}
    /\ renders[1].used # renders[2].used

\* C21: under the product route ProductDetail (and so ProductInfo) is on
\* screen exactly in the states where the query of the current key holds
\* data, so not after a change to an uncached id until its fetch succeeds,
\* and ProductInfo's fallbacks (empty title, bare "$") are never shown.
C21_DetailOnlyWithData ==
    mounted =>
        /\ IsDefined(view.detail) <=> IsDefined(CurrentQuery.data)
        /\ IsDefined(view.detail) =>
              /\ Get(view.detail) # EmptyPanels
              /\ Get(view.detail).info.title # ""
              /\ Get(view.detail).info.price # << "$" >>

\* The page moved from a product on screen to an id with nothing cached:
\* ProductDetail is gone while the new fetch is outstanding.
C21_Witness ==
    /\ mounted /\ productId = "2"
    /\ <<"product", 1>> \in DOMAIN cache
    /\ IsDefined(cache[<<"product", 1>>].data)
    /\ CurrentQuery.data = Undefined /\ CurrentQuery.fetchStatus = "fetching"
    /\ ~IsDefined(view.detail) /\ view.loading

Outstanding == mounted /\ CurrentQuery.fetchStatus = "fetching"

\* C13 as stated: the hook never suspends, and while the fetch of the
\* observed key is outstanding it returns data undefined, isLoading true and
\* no error.
C13_OutstandingMeansLoading ==
    Outstanding =>
        LET r == useProduct(cache, productId)
        IN  /\ view.renderer = "component"
            /\ r.data = Undefined /\ r.isLoading /\ r.error = Undefined

\* C13 amended: the hook never suspends (the route's own component is what
\* renders whenever the page is mounted); while a fetch is outstanding for a
\* query that holds no data the hook returns data undefined, isLoading true
\* and no error; while a background refetch is outstanding for a query that
\* holds data it returns that data with isLoading false.
C13_ManualTriple ==
    mounted =>
        LET r == useProduct(cache, productId)
            q == CurrentQuery
        IN  /\ view.renderer = "component"
            /\ (Outstanding /\ ~IsDefined(q.data)) =>
                   (r.data = Undefined /\ r.isLoading /\ r.error = Undefined)
            /\ (Outstanding /\ IsDefined(q.data)) =>
                   (r.data = q.data /\ ~r.isLoading)

\* A background refetch of a query that holds data and the error of an
\* earlier failed refetch is outstanding.
C13_Witness ==
    /\ Outstanding
    /\ IsDefined(CurrentQuery.data) /\ IsDefined(CurrentQuery.error)
    /\ ~useProduct(cache, productId).isLoading

\* C19: for a falsy id ('0', the empty parameter, a non-numeric one) the
\* query is disabled and never fetches, the hook returns isLoading false,
\* data undefined and no error, and the page shows none of the loading text,
\* the error text and ProductDetail.
C19_FalsyIdShowsNothing ==
    (mounted /\ ~Truthy(CurrentId)) =>
        LET r == useProduct(cache, productId)
        IN  /\ ~useProductOptions(productId).enabled
            /\ CurrentQuery.fetchStatus = "idle"
            /\ InFlight(CurrentKey) = {}
            /\ r.isLoading = FALSE /\ r.data = Undefined /\ r.error = Undefined
            /\ VisibleCount = 0
            /\ view.renderer = "component"

\* The page is on a non-numeric id after a product was shown for another id.
C19_Witness ==
    /\ mounted /\ productId = "abc"
    /\ <<"product", 1>> \in DOMAIN cache
    /\ IsDefined(cache[<<"product", 1>>].data)
    /\ VisibleCount = 0

\* C20: for every query, isLoading true means no data and no error; the
\* page never shows the loading text with the error text or ProductDetail.
C20_LoadingExcludesOthers ==
    /\ \A k \in DOMAIN cache :
          isLoading(cache[k]) =>
              (cache[k].data = Undefined /\ cache[k].error = Undefined)
    /\ mounted =>
          LET r == useProduct(cache, productId)
          IN  r.isLoading => (r.data = Undefined /\ r.error = Undefined)
    /\ view.loading => (~IsDefined(view.error) /\ ~IsDefined(view.detail))

\* The loading text is on screen for a key that failed before and is being
\* fetched again.
C20_Witness ==
    /\ mounted /\ view.loading
    /\ \E i \in 1..Len(calls) :
          calls[i].key = CurrentKey /\ calls[i].state = "rejected"
====
